---- MODULE Spec2Model ----
(***************************************************************************)
(* Model of the yearly backfill job (scripts/backfill_2021_from_kagglehub) *)
(* and of the data load of the two dashboards (app.py, Shiny_migration).   *)
(*                                                                         *)
(* A DataFrame is a sequence of rows, a row is a record from column names  *)
(* to values.  A nullable cell is a sequence of length at most one: <<>>   *)
(* is NaN/NaT/None, <<v>> is the value v.  A persisted parquet file is a   *)
(* record [exists, rows].                                                  *)
(***************************************************************************)
EXTENDS Integers, Sequences, FiniteSets, TLC

VARIABLES
    \* ---- append_dedupe on one persisted table (SpecMerge) ----
    store,          \* the parquet file at existing_path: [exists, rows]
    store_before,   \* the file as it was when the latest call started
    new_df,         \* the new_df argument of the latest call
    last_call,      \* "none" | "first" (a call with fresh new_df) | "again" (same new_df once more)
    \* ---- one run of the backfill script up to its exports (SpecAgg) ----
    pc,             \* the statement the script is at
    df,             \* the raw chart rows read from charts.csv
    df_2021,        \* the cleaned and filtered rows
    cys_2021,       \* country-year summary rows
    tt_2021,        \* top-tracks rows
    ay_2021,        \* artist rows
    \* ---- two runs of append_dedupe on the same file (SpecConc) ----
    shared,         \* the parquet file both runs append to: [exists, rows]
    shared0,        \* the file before either run touched it
    run,            \* per run: [at, new_df, found, combined, saw]
    landed,         \* the runs whose to_parquet has landed, in order
    \* ---- the data load of the two dashboards (SpecDash) ----
    st_exports,     \* the export files present in the Streamlit app's EXPORTS directory
    sh_exports,     \* the export files present in Shiny_migration/exports
    st,             \* load_data() of app.py: [at, read, tried, result, names, advice, returned, cached]
    sh,             \* data() of Shiny_migration/app.py: same fields
    \* ---- runs of the whole job against the persisted exports (SpecJob) ----
    exports,        \* the three parquet files of EXPORTS: table name -> [exists, rows]
    pre_exports,    \* the three files as they were when the current run started
    written,        \* how many append_dedupe calls of the current run have returned
    runs            \* how many runs of the job have been started

mergeVars == <<store, store_before, new_df, last_call>>

aggVars == <<pc, df, df_2021, cys_2021, tt_2021, ay_2021>>

concVars == <<shared, shared0, run, landed>>

dashVars == <<st_exports, sh_exports, st, sh>>

jobVars == <<exports, pre_exports, written, runs>>

vars == <<mergeVars, aggVars, concVars, dashVars, jobVars>>

(***************************************************************************)
(* Bounds of the model.                                                    *)
(***************************************************************************)
MaxNew == 2         \* most rows of a new_df handed to append_dedupe in SpecMerge
MaxRows == 3        \* most raw chart rows of charts.csv in SpecAgg
TrackLimit == 2     \* rank_year cut-off of the top-tracks table (500 in the script), scaled
ArtistLimit == 1    \* rank_year cut-off of the artist table (200 in the script), scaled
MaxConcRows == 1    \* most rows of a table or new_df in SpecConc

(***************************************************************************)
(* Sequences helpers.                                                      *)
(***************************************************************************)
SeqsUpTo(S, n) == UNION {[1..k -> S] : k \in 0..n}

Range(s) == {s[i] : i \in DOMAIN s}

\* the rows of t at the positions in S, in their order in t (boolean-mask indexing)
RECURSIVE Mask(_, _, _)
Mask(t, S, i) ==
    IF i > Len(t) THEN <<>>
    ELSE (IF i \in S THEN <<t[i]>> ELSE <<>>) \o Mask(t, S, i + 1)

(***************************************************************************)
(* append_dedupe (backfill_2021_from_kagglehub.py:98-107).                 *)
(***************************************************************************)
NoFile == [exists |-> FALSE, rows |-> <<>>]

\* the values of a row in the subset_keys columns
KeyOf(row, subset_keys) == [i \in DOMAIN subset_keys |-> row[subset_keys[i]]]

\* pd.concat([old, new_df], ignore_index=True)
Concat(old, new) == old \o new

\* the keep="first" variant: a row stays iff no earlier row has the same key
DropDuplicatesFirst(t, subset_keys) ==
    Mask(t, {i \in DOMAIN t :
                \A j \in 1..(i - 1) : KeyOf(t[j], subset_keys) # KeyOf(t[i], subset_keys)}, 1)

\* DataFrame.drop_duplicates(subset=subset_keys, keep="last"): a row stays iff
\* no later row has the same key; the order of the rows that stay is kept
DropDuplicates(t, subset_keys) ==
    Mask(t, {i \in DOMAIN t :
                \A j \in (i + 1)..Len(t) : KeyOf(t[j], subset_keys) # KeyOf(t[i], subset_keys)}, 1)

\* the table append_dedupe writes, from the file it finds and new_df
Combined(file, new, subset_keys) ==
    IF file.exists
    THEN DropDuplicates(Concat(file.rows, new), subset_keys)
    ELSE new

\* a parquet file holding the table t
ToParquet(t) == [exists |-> TRUE, rows |-> t]

\* a write that would add to the rows the file holds instead of replacing them
WriteAppending(file, combined) == ToParquet(file.rows \o combined)

\* combined.to_parquet(existing_path, index=False): whatever the file holds
\* by now is replaced in full
WriteFile(file, combined) == ToParquet(combined)

AppendDedupe(file, new, subset_keys) == WriteFile(file, Combined(file, new, subset_keys))

\* the three exports, in the order both dashboards read them
LoadOrder ==
    <<"country_year_summary", "top_tracks_country_year_top500", "artist_country_year_top200">>

Tables == Range(LoadOrder)

\* a load that has not been called
NotLoaded ==
    [at |-> "idle", read |-> {}, tried |-> <<>>, result |-> "none", names |-> {},
     advice |-> "none", returned |-> {}, cached |-> FALSE]

\* the variables of SpecDash while another specification runs
DashIdle ==
    /\ st_exports = {}
    /\ sh_exports = {}
    /\ st = NotLoaded
    /\ sh = NotLoaded

\* no export has been written
NoExports == [t \in Tables |-> NoFile]

\* the variables of SpecJob while another specification runs
JobIdle ==
    /\ exports = NoExports
    /\ pre_exports = NoExports
    /\ written = <<>>
    /\ runs = 0

\* the variables of SpecConc while another specification runs
ConcIdle ==
    /\ shared = NoFile
    /\ shared0 = NoFile
    /\ run = <<>>
    /\ landed = <<>>

(***************************************************************************)
(* SpecMerge: calls of append_dedupe on one persisted table keyed by       *)
(* (region, year), as for country_year_summary.parquet.                    *)
(***************************************************************************)
MergeKeys == <<"region", "year">>

MergeRows == [region : {"FR", "US"}, year : {2020, 2021}, total_streams : {500, 600}]

\* three keys, one of them with two values of total_streams
MergeInputRows ==
    {r \in MergeRows : \/ (r.region = "US" /\ r.year = 2020)
                       \/ (r.region = "US" /\ r.year = 2021 /\ r.total_streams = 500)
                       \/ (r.region = "FR" /\ r.year = 2021 /\ r.total_streams = 600)}

MergeInputs == SeqsUpTo(MergeInputRows, MaxNew)

InitMerge ==
    /\ store = NoFile
    /\ store_before = NoFile
    /\ new_df = <<>>
    /\ last_call = "none"

\* one call append_dedupe(existing_path, new, MergeKeys) with a new table
AppendCall(new) ==
    /\ store_before' = store
    /\ new_df' = new
    /\ store' = AppendDedupe(store, new, MergeKeys)
    /\ last_call' = "first"

\* the job is run again with the same rows: the same call once more
AppendAgain ==
    /\ last_call # "none"
    /\ store_before' = store
    /\ new_df' = new_df
    /\ store' = AppendDedupe(store, new_df, MergeKeys)
    /\ last_call' = "again"

\* the variables of SpecAgg while another specification runs
AggIdle ==
    /\ pc = "idle"
    /\ df = <<>>
    /\ df_2021 = <<>>
    /\ cys_2021 = <<>>
    /\ tt_2021 = <<>>
    /\ ay_2021 = <<>>

NextMerge ==
    \/ \E new \in MergeInputs : AppendCall(new) /\ UNCHANGED <<aggVars, concVars, dashVars, jobVars>>
    \/ AppendAgain /\ UNCHANGED <<aggVars, concVars, dashVars, jobVars>>

StartMerge == InitMerge /\ AggIdle /\ ConcIdle /\ DashIdle /\ JobIdle

SpecMerge == StartMerge /\ [][NextMerge]_vars

(***************************************************************************)
(* Cell conversions of the cleanup (backfill_2021_from_kagglehub.py:27-43).*)
(* A raw date cell is <<>> (missing), <<"text">> (not a date) or           *)
(* <<"date", year, day>>; a raw rank or streams cell is <<>>, <<"text">>   *)
(* or <<"num", n>>; a raw region or chart cell is <<>> or <<string>>.      *)
(***************************************************************************)
TargetYear == 2021

\* pd.to_datetime(x, errors="coerce"): <<year, day>>, or NaT
ToDatetime(x) == IF x # <<>> /\ x[1] = "date" THEN <<x[2], x[3]>> ELSE <<>>

\* pd.to_numeric(x, errors="coerce"): <<n>>, or NaN
ToNumeric(x) == IF x # <<>> /\ x[1] = "num" THEN <<x[2]>> ELSE <<>>

\* str.lower() on the chart names of the model
Lower(s) == IF s = "Top200" THEN "top200" ELSE s

\* the rows of t that satisfy Keep, in order
Filter(t, Keep(_)) == Mask(t, {i \in DOMAIN t : Keep(t[i])}, 1)

\* lines 27-28: parse the date, drop rows with NaN in date, region, chart, rank
ParseDate(r) == [r EXCEPT !.date = ToDatetime(r.date)]

NotNa(r) == r.date # <<>> /\ r.region # <<>> /\ r.chart # <<>> /\ r.rank # <<>>

\* the chart test alone, rows of every year kept
IsTop200AnyYear(r) == Lower(r.chart[1]) = "top200"

\* line 31: the year of the date is 2021 and the chart is top200
Is2021Top200(r) == r.date[1] = TargetYear /\ Lower(r.chart[1]) = "top200"

\* lines 34-35: rank and streams made numeric
Numeric(r) == [r EXCEPT !.rank = ToNumeric(r.rank), !.streams = ToNumeric(r.streams)]

\* line 36: rows whose rank is not a number are dropped
HasRank(r) == r.rank # <<>>

\* lines 37-43: rank as int, region as str, the year column added
Finish(r) ==
    [title |-> r.title, rank |-> r.rank[1], date |-> r.date, artist |-> r.artist,
     url |-> r.url, region |-> r.region[1], chart |-> r.chart[1], streams |-> r.streams,
     year |-> TargetYear]

MapRows(t, F(_)) == [i \in DOMAIN t |-> F(t[i])]

\* lines 27-43 as a whole: df_2021 from df
Cleanup(raw) ==
    LET parsed == MapRows(raw, ParseDate)
        present == Filter(parsed, NotNa)
        y2021 == Filter(present, Is2021Top200)
        numeric == MapRows(y2021, Numeric)
        ranked == Filter(numeric, HasRank)
    IN  MapRows(ranked, Finish)

(***************************************************************************)
(* groupby / agg / sort_values / cumcount as pandas computes them.         *)
(***************************************************************************)
\* the strings of the model in Python's string order
StrOrder == <<"Global", "US", "a1", "a2", "a3", "t1", "t1b", "t2", "t3", "u1", "u2", "u3">>

StrPos(s) == CHOOSE i \in DOMAIN StrOrder : StrOrder[i] = s

\* a < b for two values of column c
ColLess(c, a, b) == IF c \in {"year", "streams"} THEN a < b ELSE StrPos(a) < StrPos(b)

\* lexicographic order of two rows on the columns cols, from position i on
RECURSIVE RowLess(_, _, _, _)
RowLess(a, b, cols, i) ==
    IF i > Len(cols) THEN FALSE
    ELSE \/ ColLess(cols[i], a[cols[i]], b[cols[i]])
         \/ (a[cols[i]] = b[cols[i]] /\ RowLess(a, b, cols, i + 1))

\* the group keys of a groupby (sort=True): distinct, ascending
RECURSIVE SortKeys(_, _)
SortKeys(K, cols) ==
    IF K = {} THEN <<>>
    ELSE LET m == CHOOSE k \in K : \A o \in K : ~RowLess(o, k, cols, 1)
         IN  <<m>> \o SortKeys(K \ {m}, cols)

GroupKeys(t, cols) == SortKeys({[c \in Range(cols) |-> t[i][c]] : i \in DOMAIN t}, cols)

\* the rows of one group
Group(t, k) == Filter(t, LAMBDA r : \A c \in DOMAIN k : r[c] = k[c])

\* "count" of streams: the rows whose streams are not NaN
SizeOfPresentStreams(g) == Len(Mask(g, {i \in DOMAIN g : g[i].streams # <<>>}, 1))

\* "size"
Size(g) == Len(g)

\* "nunique": the distinct values of a column
NUnique(g, c) == Cardinality({g[i][c] : i \in DOMAIN g})

\* "sum" of a nullable column: NaN cells are skipped, an empty sum is 0
RECURSIVE Sum(_, _)
Sum(g, c) ==
    IF g = <<>> THEN 0
    ELSE (IF Head(g)[c] = <<>> THEN 0 ELSE Head(g)[c][1]) + Sum(Tail(g), c)

\* the number of cells of the column that are not NaN
Count(g, c) == Len(Filter(g, LAMBDA r : r[c] # <<>>))

\* a mean that counts a NaN cell as 0
MeanOfFilled(g, c) == <<Sum(g, c), Len(g)>>

\* "mean" of a nullable column: the fraction <<sum, count>> over the cells
\* that are not NaN, NaN when there is none
Mean(g, c) == IF Count(g, c) = 0 THEN <<>> ELSE <<Sum(g, c), Count(g, c)>>

\* "min" of an integer column
Min(g, c) == CHOOSE m \in {g[i][c] : i \in DOMAIN g} : \A i \in DOMAIN g : m <= g[i][c]

\* the same order with streams ascending
SortsBeforeAscending(a, b) ==
    \/ StrPos(a.region) < StrPos(b.region)
    \/ (a.region = b.region /\ a.year = b.year /\ a.streams < b.streams)

\* sort_values(["region", "year", "streams"], ascending=[True, True, False]):
\* a before b
SortsBefore(a, b) ==
    \/ RowLess(a, b, <<"region", "year">>, 1)
    \/ (a.region = b.region /\ a.year = b.year /\ a.streams > b.streams)

\* a row put into a sorted table before the rows it ties with
RECURSIVE InsertBeforeEqual(_, _)
InsertBeforeEqual(s, r) ==
    IF s = <<>> THEN <<r>>
    ELSE IF ~SortsBefore(Head(s), r) THEN <<r>> \o s
         ELSE <<Head(s)>> \o InsertBeforeEqual(Tail(s), r)

\* a row put into a sorted table after every row that does not sort after it
RECURSIVE Insert(_, _)
Insert(s, r) ==
    IF s = <<>> THEN <<r>>
    ELSE IF SortsBefore(r, Head(s)) THEN <<r>> \o s
         ELSE <<Head(s)>> \o Insert(Tail(s), r)

\* the multi-column sort keeps the order of rows that compare equal
RECURSIVE SortValues(_)
SortValues(t) ==
    IF t = <<>> THEN <<>>
    ELSE Insert(SortValues(SubSeq(t, 1, Len(t) - 1)), t[Len(t)])

\* a 1-based position in the whole table, not within the (region, year) group
CumCountWholeTable(t, i) == i

\* groupby(["region", "year"]).cumcount() + 1 for row i of t
CumCount(t, i) ==
    Cardinality({j \in 1..(i - 1) : t[j].region = t[i].region /\ t[j].year = t[i].year}) + 1

\* lines 75-77, 90-92: sort, number within (region, year), keep rank_year <= limit
RankAndTruncate(t, limit) ==
    LET sorted == SortValues(t)
        ranked == [i \in DOMAIN sorted |->
                      [c \in DOMAIN sorted[i] \cup {"rank_year"} |->
                          IF c = "rank_year" THEN CumCount(sorted, i) ELSE sorted[i][c]]]
    IN  Filter(ranked, LAMBDA r : r.rank_year <= limit)

(***************************************************************************)
(* The three aggregations (backfill_2021_from_kagglehub.py:51-92).         *)
(***************************************************************************)
\* line 65: url is a column of charts.csv, so it is the track key
track_key == "url"

\* lines 51-60
CountryYearSummary(t) ==
    LET keys == GroupKeys(t, <<"region", "year">>)
    IN  [i \in DOMAIN keys |->
            LET g == Group(t, keys[i])
            IN  [region |-> keys[i].region, year |-> keys[i].year,
                 chart_rows |-> Size(g),
                 unique_tracks |-> NUnique(g, "url"),
                 unique_artists |-> NUnique(g, "artist"),
                 total_streams |-> Sum(g, "streams"),
                 avg_streams |-> Mean(g, "streams")]]

\* lines 66-73
TrackAgg(t) ==
    LET keys == GroupKeys(t, <<"region", "year", track_key, "title", "artist">>)
    IN  [i \in DOMAIN keys |->
            LET g == Group(t, keys[i])
            IN  [region |-> keys[i].region, year |-> keys[i].year, url |-> keys[i].url,
                 title |-> keys[i].title, artist |-> keys[i].artist,
                 streams |-> Sum(g, "streams"),
                 best_rank |-> Min(g, "rank"),
                 days_on_chart |-> NUnique(g, "date")]]

\* lines 66-77
TopTracks(t) == RankAndTruncate(TrackAgg(t), TrackLimit)

\* lines 80-88
ArtistAgg(t) ==
    LET keys == GroupKeys(t, <<"region", "year", "artist">>)
    IN  [i \in DOMAIN keys |->
            LET g == Group(t, keys[i])
            IN  [region |-> keys[i].region, year |-> keys[i].year, artist |-> keys[i].artist,
                 streams |-> Sum(g, "streams"),
                 track_count |-> NUnique(g, track_key),
                 days_on_chart |-> NUnique(g, "date"),
                 best_rank |-> Min(g, "rank")]]

\* lines 80-92
TopArtists(t) == RankAndTruncate(ArtistAgg(t), ArtistLimit)

(***************************************************************************)
(* SpecAgg: one run of the script from the raw rows to the three tables.   *)
(***************************************************************************)
RawRow(region, track, streams, date, chart) ==
    [title |-> track[2], rank |-> <<"num", 1>>, date |-> date, artist |-> track[3],
     url |-> track[1], region |-> region, chart |-> chart, streams |-> streams]

\* <<url, title, artist>>: the second is the first under another title
Tracks == {<<"u1", "t1", "a1">>, <<"u1", "t1b", "a1">>, <<"u2", "t2", "a2">>, <<"u3", "t3", "a3">>}

Day1 == <<"date", 2021, 1>>

\* rows that pass the cleanup
GoodRows ==
    {RawRow(<<"US">>, t, s, Day1, <<"top200">>) :
        t \in Tracks, s \in {<<>>, <<"num", 1>>, <<"num", 2>>}}
    \cup
    {RawRow(<<"Global">>, t, s, Day1, <<"Top200">>) :
        t \in {<<"u1", "t1", "a1">>, <<"u2", "t2", "a2">>}, s \in {<<>>, <<"num", 1>>}}

\* rows the cleanup drops: another chart, another year
DroppedRows ==
    {RawRow(<<"US">>, <<"u1", "t1", "a1">>, <<"num", 2>>, Day1, <<"viral50">>),
     RawRow(<<"US">>, <<"u1", "t1", "a1">>, <<"num", 2>>, <<"date", 2020, 1>>, <<"top200">>)}

AggInputs == SeqsUpTo(GoodRows \cup DroppedRows, MaxRows)

InitAgg ==
    /\ pc = "cleanup"
    /\ df \in AggInputs
    /\ df_2021 = <<>>
    /\ cys_2021 = <<>>
    /\ tt_2021 = <<>>
    /\ ay_2021 = <<>>

\* lines 27-43
DoCleanup ==
    /\ pc = "cleanup"
    /\ df_2021' = Cleanup(df)
    /\ pc' = "cys"
    /\ UNCHANGED <<df, cys_2021, tt_2021, ay_2021>>

\* lines 51-60
BuildCys ==
    /\ pc = "cys"
    /\ cys_2021' = CountryYearSummary(df_2021)
    /\ pc' = "tt"
    /\ UNCHANGED <<df, df_2021, tt_2021, ay_2021>>

\* lines 65-77
BuildTopTracks ==
    /\ pc = "tt"
    /\ tt_2021' = TopTracks(df_2021)
    /\ pc' = "ay"
    /\ UNCHANGED <<df, df_2021, cys_2021, ay_2021>>

\* lines 80-92
BuildArtists ==
    /\ pc = "ay"
    /\ ay_2021' = TopArtists(df_2021)
    /\ pc' = "append"
    /\ UNCHANGED <<df, df_2021, cys_2021, tt_2021>>

NextAgg ==
    \/ DoCleanup /\ UNCHANGED <<mergeVars, concVars, dashVars, jobVars>>
    \/ BuildCys /\ UNCHANGED <<mergeVars, concVars, dashVars, jobVars>>
    \/ BuildTopTracks /\ UNCHANGED <<mergeVars, concVars, dashVars, jobVars>>
    \/ BuildArtists /\ UNCHANGED <<mergeVars, concVars, dashVars, jobVars>>

StartAgg == InitAgg /\ InitMerge /\ ConcIdle /\ DashIdle /\ JobIdle

SpecAgg == StartAgg /\ [][NextAgg]_vars

(***************************************************************************)
(* SpecClean: the same run on a charts.csv with rows of every kind the     *)
(* cleanup (lines 27-43) tells apart.                                      *)
(***************************************************************************)
\* a row of track u1 in the US with 2 streams and the given date, chart,
\* region and rank cells
CellRow(date, chart, region, rank) ==
    [RawRow(region, <<"u1", "t1", "a1">>, <<"num", 2>>, date, chart) EXCEPT !.rank = rank]

CleanRows ==
    {RawRow(<<"US">>, <<"u1", "t1", "a1">>, <<"num", 1>>, Day1, <<"top200">>),
     RawRow(<<"US">>, <<"u2", "t2", "a2">>, <<"num", 2>>, Day1, <<"top200">>),
     RawRow(<<"US">>, <<"u3", "t3", "a3">>, <<"text">>, Day1, <<"top200">>),
     RawRow(<<"Global">>, <<"u1", "t1", "a1">>, <<"num", 1>>, Day1, <<"Top200">>),
     CellRow(<<>>, <<"top200">>, <<"US">>, <<"num", 1>>),
     CellRow(<<"text">>, <<"top200">>, <<"US">>, <<"num", 1>>),
     CellRow(<<"date", 2020, 1>>, <<"top200">>, <<"US">>, <<"num", 1>>),
     CellRow(Day1, <<>>, <<"US">>, <<"num", 1>>),
     CellRow(Day1, <<"viral50">>, <<"US">>, <<"num", 1>>),
     CellRow(Day1, <<"top200">>, <<>>, <<"num", 1>>),
     CellRow(Day1, <<"top200">>, <<"US">>, <<>>),
     CellRow(Day1, <<"top200">>, <<"US">>, <<"text">>)}

CleanInputs == SeqsUpTo(CleanRows, MaxRows)

InitClean ==
    /\ pc = "cleanup"
    /\ df \in CleanInputs
    /\ df_2021 = <<>>
    /\ cys_2021 = <<>>
    /\ tt_2021 = <<>>
    /\ ay_2021 = <<>>

StartClean == InitClean /\ InitMerge /\ ConcIdle /\ DashIdle /\ JobIdle

SpecClean == StartClean /\ [][NextAgg]_vars

(***************************************************************************)
(* SpecConc: two runs of the job reach append_dedupe for the same export.  *)
(* Nothing in lines 98-107 locks the file: the existence test, the read    *)
(* and the write of one run interleave with those of the other.            *)
(***************************************************************************)
Runs == {1, 2}

ConcInputs == SeqsUpTo(MergeInputRows, MaxConcRows)

InitConc ==
    /\ shared \in {NoFile} \cup {ToParquet(t) : t \in ConcInputs}
    /\ shared0 = shared
    /\ run \in [Runs -> {[at |-> "exists", new_df |-> n, found |-> FALSE, combined |-> <<>>,
                          saw |-> 0] : n \in ConcInputs}]
    /\ landed = <<>>

\* line 99, and line 104 when the file is not there
TestExists(p) ==
    /\ run[p].at = "exists"
    /\ run' = [run EXCEPT ![p] =
                  IF shared.exists
                  THEN [@ EXCEPT !.at = "read", !.found = TRUE]
                  ELSE [@ EXCEPT !.at = "write", !.found = FALSE,
                                 !.combined = Combined(NoFile, run[p].new_df, MergeKeys),
                                 !.saw = Len(landed)]]
    /\ UNCHANGED <<shared, shared0, landed>>

\* lines 100-102
ReadAndCombine(p) ==
    /\ run[p].at = "read"
    /\ run' = [run EXCEPT ![p] =
                  [@ EXCEPT !.at = "write",
                            !.combined = Combined(shared, run[p].new_df, MergeKeys),
                            !.saw = Len(landed)]]
    /\ UNCHANGED <<shared, shared0, landed>>

\* line 106
WriteParquet(p) ==
    /\ run[p].at = "write"
    /\ shared' = WriteFile(shared, run[p].combined)
    /\ landed' = Append(landed, p)
    /\ run' = [run EXCEPT ![p] = [@ EXCEPT !.at = "done"]]
    /\ UNCHANGED shared0

NextConc ==
    \/ \E p \in Runs : TestExists(p) /\ UNCHANGED <<mergeVars, aggVars, dashVars, jobVars>>
    \/ \E p \in Runs : ReadAndCombine(p) /\ UNCHANGED <<mergeVars, aggVars, dashVars, jobVars>>
    \/ \E p \in Runs : WriteParquet(p) /\ UNCHANGED <<mergeVars, aggVars, dashVars, jobVars>>

StartConc == InitConc /\ InitMerge /\ AggIdle /\ DashIdle /\ JobIdle

SpecConc == StartConc /\ [][NextConc]_vars

(***************************************************************************)
(* SpecDash: the data load of the two dashboards.  An export is a file     *)
(* that is there or not; files appear when the backfill writes them or the *)
(* user copies them.  A load records the files it read, the read attempts  *)
(* it made, and what it handed back: data or an error with the files the   *)
(* message names and the fix it advises.                                   *)
(***************************************************************************)
StartLoad(s) ==
    [s EXCEPT !.at = "loading", !.read = {}, !.tried = <<>>, !.result = "none",
              !.names = {}, !.advice = "none", !.returned = {}]

\* the load returns (cys, tt, ay) and the cache keeps it
ReturnData(s) ==
    [s EXCEPT !.at = "idle", !.result = "data", !.returned = Tables, !.cached = TRUE]

\* an error that would hand back the tables read so far
RaisePartial(s, names, advice) ==
    [s EXCEPT !.at = "idle", !.result = "error", !.names = names, !.advice = advice,
              !.returned = s.read]

\* an exception leaves the load: nothing is returned and nothing is cached
Raise(s, names, advice) ==
    [s EXCEPT !.at = "idle", !.result = "error", !.names = names, !.advice = advice,
              !.returned = {}]

\* app.py:14-21: a script run calls load_data(); st.cache_data answers from
\* its cache once a call has returned
StreamlitRun ==
    /\ st.at = "idle"
    /\ st' = IF st.cached THEN ReturnData(StartLoad(st)) ELSE StartLoad(st)
    /\ UNCHANGED <<st_exports, sh_exports, sh>>

\* app.py:16-19: the next pd.read_parquet; on a missing file it raises
\* FileNotFoundError for that path, else the table is kept in a local
StreamlitRead ==
    /\ st.at = "loading"
    /\ LET t == LoadOrder[Len(st.tried) + 1]
           s == [st EXCEPT !.tried = Append(@, t)]
       IN  st' = IF t \notin st_exports
                 THEN Raise(s, {t}, "none")
                 ELSE IF Len(s.tried) = Len(LoadOrder)
                      THEN ReturnData([s EXCEPT !.read = @ \cup {t}])
                      ELSE [s EXCEPT !.read = @ \cup {t}]
    /\ UNCHANGED <<st_exports, sh_exports, sh>>

\* Shiny_migration/app.py:22-39: a call of data(); lru_cache answers once a
\* call has returned; else the three exists() tests, and FileNotFoundError
\* listing every missing path with the advice to copy the exports
ShinyCall ==
    /\ sh.at = "idle"
    /\ sh' = IF sh.cached THEN ReturnData(StartLoad(sh))
             ELSE IF Tables \ sh_exports # {}
                  THEN Raise(StartLoad(sh), Tables \ sh_exports, "copy from repo root exports")
                  ELSE StartLoad(sh)
    /\ UNCHANGED <<st_exports, sh_exports, st>>

\* Shiny_migration/app.py:41-44: the three reads and the return (no step
\* removes an export, so the files found at line 32 are still there)
ShinyRead ==
    /\ sh.at = "loading"
    /\ sh' = ReturnData([sh EXCEPT !.read = Tables, !.tried = LoadOrder])
    /\ UNCHANGED <<st_exports, sh_exports, st>>

\* an export file appears in the Streamlit app's directory (the backfill's
\* to_parquet, backfill_2021_from_kagglehub.py:106)
StreamlitExportAppears(t) ==
    /\ t \notin st_exports
    /\ st_exports' = st_exports \cup {t}
    /\ UNCHANGED <<sh_exports, st, sh>>

\* an export file is copied into Shiny_migration/exports
ShinyExportAppears(t) ==
    /\ t \notin sh_exports
    /\ sh_exports' = sh_exports \cup {t}
    /\ UNCHANGED <<st_exports, st, sh>>

InitDash == DashIdle

NextDash ==
    \/ StreamlitRun /\ UNCHANGED <<mergeVars, aggVars, concVars, jobVars>>
    \/ StreamlitRead /\ UNCHANGED <<mergeVars, aggVars, concVars, jobVars>>
    \/ ShinyCall /\ UNCHANGED <<mergeVars, aggVars, concVars, jobVars>>
    \/ ShinyRead /\ UNCHANGED <<mergeVars, aggVars, concVars, jobVars>>
    \/ \E t \in Tables : StreamlitExportAppears(t) /\ UNCHANGED <<mergeVars, aggVars, concVars, jobVars>>
    \/ \E t \in Tables : ShinyExportAppears(t) /\ UNCHANGED <<mergeVars, aggVars, concVars, jobVars>>

StartDash == InitDash /\ InitMerge /\ AggIdle /\ ConcIdle /\ JobIdle

SpecDash == StartDash /\ [][NextDash]_vars

(***************************************************************************)
(* The columns the dashboards read from each export.                       *)
(***************************************************************************)
\* app.py: country_year_summary 24, 82-111, 129-134, 163-173, 202-211;
\* top_tracks 28, 185-186, 215-255; artist_year 29, 289-314
StreamlitColumns(table) ==
    CASE table = "country_year_summary" ->
            {"year", "iso3", "country", "total_streams", "unique_artists", "unique_tracks",
             "avg_rank"}
      [] table = "top_tracks_country_year_top500" ->
            {"year", "country", "streams_sum", "track_name", "artist_name", "best_rank",
             "days_charted"}
      [] table = "artist_country_year_top200" ->
            {"year", "country", "artist_name", "streams_sum"}

\* Shiny_migration/app.py: cys 188, 213-214, 226-228, 239-250, 268-269, 292-299;
\* tt 194, 281-283, 311-323, 345; ay 201, 355-356, 364-374, 383-388
ShinyColumns(table) ==
    CASE table = "country_year_summary" ->
            {"year", "iso3", "country", "total_streams", "unique_artists", "unique_tracks",
             "avg_rank"}
      [] table = "top_tracks_country_year_top500" ->
            {"year", "country", "streams_sum", "track_name", "artist_name", "best_rank",
             "days_charted"}
      [] table = "artist_country_year_top200" ->
            {"year", "country", "artist_name", "streams_sum"}

\* the rows the script hands to append_dedupe for each export (lines 109-125)
JobRows(table) ==
    CASE table = "country_year_summary" -> cys_2021
      [] table = "top_tracks_country_year_top500" -> tt_2021
      [] table = "artist_country_year_top200" -> ay_2021

(***************************************************************************)
(* SpecJob: the whole script run up to MaxRuns times against the same      *)
(* exports directory. A run cleans, aggregates, then calls append_dedupe   *)
(* three times (lines 109-125); it may stop with an exception (a failed    *)
(* read or write) before any of these steps, and a later run starts from   *)
(* whatever the exports hold by then.                                      *)
(***************************************************************************)
MaxJobRows == 2

MaxRuns == 2

\* the same calls with the artist table first
ExportOrderArtistsFirst ==
    <<"artist_country_year_top200", "country_year_summary", "top_tracks_country_year_top500">>

\* lines 109-125: the order of the three append_dedupe calls
ExportOrder ==
    <<"country_year_summary", "top_tracks_country_year_top500", "artist_country_year_top200">>

\* lines 112, 118, 124: the subset_keys argument of each call
SubsetKeys(table) ==
    CASE table = "country_year_summary" -> <<"region", "year">>
      [] table = "top_tracks_country_year_top500" -> <<"region", "year", track_key>>
      [] table = "artist_country_year_top200" -> <<"region", "year", "artist">>

\* chart rows of one region: three tracks, the first also on a day without
\* a streams figure
JobInputRows ==
    <<RawRow(<<"US">>, <<"u1", "t1", "a1">>, <<"num", 1>>, Day1, <<"top200">>),
      RawRow(<<"US">>, <<"u2", "t2", "a2">>, <<"num", 1>>, Day1, <<"top200">>),
      RawRow(<<"US">>, <<"u3", "t3", "a3">>, <<"num", 2>>, Day1, <<"top200">>),
      RawRow(<<"US">>, <<"u1", "t1", "a1">>, <<>>, <<"date", 2021, 2>>, <<"top200">>)>>

\* charts.csv holding up to MaxJobRows of these rows, each at most once
JobInputs ==
    {Mask(JobInputRows, S, 1) :
        S \in {T \in SUBSET DOMAIN JobInputRows : Cardinality(T) <= MaxJobRows}}

\* the first run on a directory without exports (line 13 creates it empty)
InitJob ==
    /\ pc = "cleanup"
    /\ df \in JobInputs
    /\ df_2021 = <<>>
    /\ cys_2021 = <<>>
    /\ tt_2021 = <<>>
    /\ ay_2021 = <<>>
    /\ exports = NoExports
    /\ pre_exports = NoExports
    /\ written = <<>>
    /\ runs = 1

\* lines 109-125: the next of the three append_dedupe calls
AppendExport ==
    /\ pc = "append"
    /\ LET table == ExportOrder[Len(written) + 1] IN
           /\ exports' = [exports EXCEPT
                             ![table] = AppendDedupe(@, JobRows(table), SubsetKeys(table))]
           /\ written' = Append(written, table)
    /\ pc' = IF Len(written) + 1 = Len(ExportOrder) THEN "done" ELSE "append"
    /\ UNCHANGED <<df, df_2021, cys_2021, tt_2021, ay_2021, pre_exports, runs>>

\* an exception or a kill ends the run before its next step
Crash ==
    /\ pc \in {"cleanup", "cys", "tt", "ay", "append"}
    /\ pc' = "failed"
    /\ UNCHANGED <<df, df_2021, cys_2021, tt_2021, ay_2021, jobVars>>

\* the script is started again on the exports the earlier runs left
StartRun(input) ==
    /\ pc \in {"done", "failed"}
    /\ runs < MaxRuns
    /\ df' = input
    /\ df_2021' = <<>>
    /\ cys_2021' = <<>>
    /\ tt_2021' = <<>>
    /\ ay_2021' = <<>>
    /\ pc' = "cleanup"
    /\ pre_exports' = exports
    /\ written' = <<>>
    /\ runs' = runs + 1
    /\ UNCHANGED exports

NextJob ==
    \/ DoCleanup /\ UNCHANGED <<mergeVars, concVars, dashVars, jobVars>>
    \/ BuildCys /\ UNCHANGED <<mergeVars, concVars, dashVars, jobVars>>
    \/ BuildTopTracks /\ UNCHANGED <<mergeVars, concVars, dashVars, jobVars>>
    \/ BuildArtists /\ UNCHANGED <<mergeVars, concVars, dashVars, jobVars>>
    \/ AppendExport /\ UNCHANGED <<mergeVars, concVars, dashVars>>
    \/ Crash /\ UNCHANGED <<mergeVars, concVars, dashVars>>
    \/ \E input \in JobInputs : StartRun(input) /\ UNCHANGED <<mergeVars, concVars, dashVars>>

StartJob == InitJob /\ InitMerge /\ ConcIdle /\ DashIdle

SpecJob == StartJob /\ [][NextJob]_vars

(***************************************************************************)
(* Properties of append_dedupe, checked under SpecMerge.                   *)
(***************************************************************************)
KeysIn(t) == {KeyOf(t[i], MergeKeys) : i \in DOMAIN t}

\* the positions of the rows of t with key k
RowsWithKey(t, k) == {i \in DOMAIN t : KeyOf(t[i], MergeKeys) = k}

\* the last row of t with key k (k occurs in t)
LastWithKey(t, k) == t[CHOOSE i \in RowsWithKey(t, k) : \A j \in RowsWithKey(t, k) : j <= i]

\* C1: running append_dedupe a second time with the same new rows and keys
\* leaves the persisted table equal to the one the first run left, for an
\* absent as for a present starting table.
C1_MergeIdempotent == last_call = "again" => store = store_before

\* C2: after append_dedupe returns, no two rows of the persisted table have
\* the same values in the key columns, whatever the prior state of the table
\* and also when the new rows repeat a key.
C2_MergedKeysUnique ==
    last_call # "none" =>
        \A i, j \in DOMAIN store.rows :
            i # j => KeyOf(store.rows[i], MergeKeys) # KeyOf(store.rows[j], MergeKeys)

\* C3: when the persisted table exists and a key occurs both in it and in the
\* new rows, the table after append_dedupe holds exactly one row for that key,
\* it is the last row of the new rows with that key, and it stands after every
\* row kept from the existing table.
C3_NewRowWins ==
    (last_call # "none" /\ store_before.exists) =>
        \A k \in KeysIn(store_before.rows) \cap KeysIn(new_df) :
            /\ Cardinality(RowsWithKey(store.rows, k)) = 1
            /\ LastWithKey(store.rows, k) = LastWithKey(new_df, k)
            /\ \A i \in DOMAIN store.rows :
                   KeyOf(store.rows[i], MergeKeys) \notin KeysIn(new_df)
                       => \A j \in RowsWithKey(store.rows, k) : i < j

\* C3 witness: a call found the table present, and a key of it came again in
\* the new rows with another total_streams value.
C3_Witness ==
    /\ last_call = "first"
    /\ store_before.exists
    /\ \E i \in DOMAIN store_before.rows, j \in DOMAIN new_df :
           /\ KeyOf(store_before.rows[i], MergeKeys) = KeyOf(new_df[j], MergeKeys)
           /\ store_before.rows[i].total_streams # new_df[j].total_streams
    /\ \E i \in DOMAIN store.rows : KeyOf(store.rows[i], MergeKeys) \notin KeysIn(new_df)

\* C4: every row of the existing persisted table whose key does not occur in
\* the new rows is still in the table after append_dedupe, unchanged.
C4_OldRowsPreserved ==
    (last_call # "none" /\ store_before.exists) =>
        \A i \in DOMAIN store_before.rows :
            KeyOf(store_before.rows[i], MergeKeys) \notin KeysIn(new_df)
                => store_before.rows[i] \in Range(store.rows)

(***************************************************************************)
(* Properties of the aggregations, checked under SpecAgg.  They are stated *)
(* on the raw rows and the tables, not through the operators above.        *)
(***************************************************************************)
RegionNames == {"Global", "US"}

\* a raw row that passes cleaning and filtering: a date in 2021, the top200
\* chart, a region, a numeric rank
Qualifies(r) ==
    /\ r.date # <<>> /\ r.date[1] = "date" /\ r.date[2] = 2021
    /\ r.chart \in {<<"top200">>, <<"Top200">>}
    /\ r.region # <<>>
    /\ r.rank # <<>> /\ r.rank[1] = "num"

\* the positions of the qualifying raw rows of a region
QualifyingIn(reg) == {i \in DOMAIN df : Qualifies(df[i]) /\ df[i].region = <<reg>>}

\* the streams of a raw row as a number, absent streams counting nothing
PresentStreams(r) == IF r.streams # <<>> /\ r.streams[1] = "num" THEN r.streams[2] ELSE 0

RECURSIVE StreamsOver(_)
StreamsOver(I) ==
    IF I = {} THEN 0
    ELSE LET i == CHOOSE x \in I : TRUE IN PresentStreams(df[i]) + StreamsOver(I \ {i})

\* the aggregated tracks (artists) of a region: the distinct group keys
TrackGroups(reg) == {<<df[i].url, df[i].title, df[i].artist>> : i \in QualifyingIn(reg)}

ArtistGroups(reg) == {df[i].artist : i \in QualifyingIn(reg)}

TrackGroupStreams(reg, g) ==
    StreamsOver({i \in QualifyingIn(reg) : <<df[i].url, df[i].title, df[i].artist>> = g})

ArtistGroupStreams(reg, a) == StreamsOver({i \in QualifyingIn(reg) : df[i].artist = a})

MinOf(a, b) == IF a <= b THEN a ELSE b

RowsOf(t, reg) == {i \in DOMAIN t : t[i].region = reg}

\* the rank_year values of a region's rows are 1..n, each once
RanksAre(t, reg, n) ==
    /\ Cardinality(RowsOf(t, reg)) = n
    /\ {t[i].rank_year : i \in RowsOf(t, reg)} = 1..n

\* C5: in the output of the top-tracks and top-artists ranking the rank_year
\* values of every (region, year) group are exactly 1..min(n, limit), each
\* once, n being the number of aggregated rows of the group.
C5_RanksContiguous ==
    pc = "append" =>
        \A reg \in RegionNames :
            /\ RanksAre(tt_2021, reg, MinOf(Cardinality(TrackGroups(reg)), TrackLimit))
            /\ RanksAre(ay_2021, reg, MinOf(Cardinality(ArtistGroups(reg)), ArtistLimit))

\* C5 witness: a region has more aggregated tracks than the track limit and
\* more artists than the artist limit, so both tables were cut.
C5_Witness ==
    /\ pc = "append"
    /\ \E reg \in RegionNames :
           /\ Cardinality(TrackGroups(reg)) > TrackLimit
           /\ Cardinality(ArtistGroups(reg)) > ArtistLimit

\* C6: within every (region, year) group every aggregated track (artist) left
\* out of the output has summed streams at most those of every retained row,
\* retained rows carry the summed streams of their group, and a row with a
\* smaller rank_year never has smaller streams than one with a larger.
C6_TruncationKeepsHighest ==
    pc = "append" =>
        \A reg \in RegionNames :
            /\ \A i \in RowsOf(tt_2021, reg) :
                   LET r == tt_2021[i] IN
                   /\ <<r.url, r.title, r.artist>> \in TrackGroups(reg)
                   /\ r.streams = TrackGroupStreams(reg, <<r.url, r.title, r.artist>>)
                   /\ \A g \in TrackGroups(reg) :
                          (\A j \in RowsOf(tt_2021, reg) :
                               <<tt_2021[j].url, tt_2021[j].title, tt_2021[j].artist>> # g)
                              => TrackGroupStreams(reg, g) <= r.streams
                   /\ \A j \in RowsOf(tt_2021, reg) :
                          r.rank_year < tt_2021[j].rank_year => r.streams >= tt_2021[j].streams
            /\ \A i \in RowsOf(ay_2021, reg) :
                   LET r == ay_2021[i] IN
                   /\ r.artist \in ArtistGroups(reg)
                   /\ r.streams = ArtistGroupStreams(reg, r.artist)
                   /\ \A a \in ArtistGroups(reg) :
                          (\A j \in RowsOf(ay_2021, reg) : ay_2021[j].artist # a)
                              => ArtistGroupStreams(reg, a) <= r.streams
                   /\ \A j \in RowsOf(ay_2021, reg) :
                          r.rank_year < ay_2021[j].rank_year => r.streams >= ay_2021[j].streams

\* C6 witness: a track with strictly fewer streams than every retained track
\* of its region was left out, and so was an artist.
C6_Witness ==
    /\ pc = "append"
    /\ \E reg \in RegionNames :
           /\ \E g \in TrackGroups(reg) :
                  \A i \in RowsOf(tt_2021, reg) : TrackGroupStreams(reg, g) < tt_2021[i].streams
           /\ \E a \in ArtistGroups(reg) :
                  \A i \in RowsOf(ay_2021, reg) : ArtistGroupStreams(reg, a) < ay_2021[i].streams
           /\ \E i, j \in RowsOf(tt_2021, reg) : tt_2021[i].streams > tt_2021[j].streams

\* C7: for every region of the cleaned input the summary has one row, whose
\* total_streams is the sum of the present streams of the region's qualifying
\* rows and whose chart_rows is the number of those rows, absent streams
\* included; a region without qualifying rows has no row.
C7_TotalsAndCounts ==
    pc = "append" =>
        \A reg \in RegionNames :
            IF QualifyingIn(reg) = {}
            THEN RowsOf(cys_2021, reg) = {}
            ELSE /\ Cardinality(RowsOf(cys_2021, reg)) = 1
                 /\ \A i \in RowsOf(cys_2021, reg) :
                        /\ cys_2021[i].year = 2021
                        /\ cys_2021[i].total_streams = StreamsOver(QualifyingIn(reg))
                        /\ cys_2021[i].chart_rows = Cardinality(QualifyingIn(reg))

\* C7 witness: a region has a qualifying row with streams, one without, and a
\* row that does not qualify.
C7_Witness ==
    /\ pc = "append"
    /\ \E reg \in RegionNames :
           /\ \E i \in QualifyingIn(reg) : PresentStreams(df[i]) > 0
           /\ \E i \in QualifyingIn(reg) : df[i].streams = <<>>
           /\ \E i \in DOMAIN df : df[i].region = <<reg>> /\ ~Qualifies(df[i])

\* C9: every column either dashboard selects or filters on in the three
\* exports is a column of the rows the batch job writes to that export.
C9_DashboardColumnsWritten ==
    pc = "append" =>
        \A table \in Tables :
            \A i \in DOMAIN JobRows(table) :
                StreamlitColumns(table) \cup ShinyColumns(table) \subseteq DOMAIN JobRows(table)[i]

(***************************************************************************)
(* Properties of overlapping runs, checked under SpecConc.                 *)
(***************************************************************************)
BothDone == \A p \in Runs : run[p].at = "done"

\* each run tested and read the file before the other run's write landed
Overlapped == \A p \in Runs : run[p].saw = 0

LastWriter == landed[Len(landed)]

OtherRun(p) == CHOOSE q \in Runs : q # p

\* C8: when two runs overlap on the same persisted table, each reading it
\* before the other writes, the final table is the full-file result of the run
\* whose write lands last: the pre-run table merged with that run's rows only.
\* Rows that only the other run contributed are not in the final table.
C8_LastWriterWins ==
    (BothDone /\ Overlapped) =>
        LET mine == run[LastWriter].new_df
            theirs == run[OtherRun(LastWriter)].new_df
        IN  /\ shared.exists
            /\ IF ~shared0.exists
               THEN shared.rows = mine
               ELSE /\ KeysIn(shared.rows) = KeysIn(shared0.rows) \cup KeysIn(mine)
                    /\ \A k \in KeysIn(shared.rows) :
                           /\ Cardinality(RowsWithKey(shared.rows, k)) = 1
                           /\ LastWithKey(shared.rows, k) =
                                  IF k \in KeysIn(mine) THEN LastWithKey(mine, k)
                                  ELSE LastWithKey(shared0.rows, k)
            /\ \A i \in DOMAIN theirs :
                   theirs[i] \notin Range(shared0.rows) \cup Range(mine)
                       => theirs[i] \notin Range(shared.rows)

\* C8 witness: both runs overlapped on an existing table and the run that
\* wrote first had a row for a key that neither the table nor the other run has.
C8_Witness ==
    /\ BothDone
    /\ Overlapped
    /\ shared0.exists
    /\ shared0.rows # <<>>
    /\ \E i \in DOMAIN run[OtherRun(LastWriter)].new_df :
           KeyOf(run[OtherRun(LastWriter)].new_df[i], MergeKeys)
               \notin KeysIn(shared0.rows) \cup KeysIn(run[LastWriter].new_df)

(***************************************************************************)
(* Properties of the dashboards' data load, checked under SpecDash.        *)
(***************************************************************************)
NoRepeat(q) == \A i, j \in DOMAIN q : i # j => q[i] # q[j]

\* C10 as claimed: a load that meets a missing export fails with an error that
\* names the missing export and tells the user to run the backfill step, and
\* returns no partial data, in both front ends.
C10_ErrorAdvisesBackfill ==
    \A s \in {st, sh} :
        s.result = "error" =>
            /\ s.names # {}
            /\ s.advice = "run the backfill step"
            /\ s.returned = {}

\* C10 amended: data is returned only when all three exports are there, and
\* then all three tables are returned; a load that meets a missing export ends
\* with an error and returns nothing, having tried no file twice.  The error
\* names missing exports only: the Shiny load names every missing export and
\* advises copying the exports from the repository root, the Streamlit load
\* names the first missing export in read order and advises nothing.
C10_LoadFailsWhole ==
    /\ \A s \in {st, sh} :
           /\ s.result = "data" => s.returned = Tables
           /\ s.result = "error" => (s.returned = {} /\ s.names # {})
           /\ NoRepeat(s.tried)
    /\ st.result = "data" => Tables \subseteq st_exports
    /\ sh.result = "data" => Tables \subseteq sh_exports
    /\ st.result = "error" =>
           /\ st.names = {st.tried[Len(st.tried)]}
           /\ st.read = {st.tried[i] : i \in 1..(Len(st.tried) - 1)}
           /\ st.advice = "none"
    /\ sh.result = "error" =>
           /\ sh.read = {}
           /\ sh.tried = <<>>
           /\ sh.advice = "copy from repo root exports"

\* C10 witness: the Streamlit load failed on the second export after reading
\* the first, and the Shiny load failed with two exports missing.
C10_Witness ==
    /\ st.result = "error"
    /\ st.read # {}
    /\ sh.result = "error"
    /\ Cardinality(sh.names) = 2

\* C11: the top-tracks output has at most one row per (region, year,
\* track_key): chart rows with the same region and track_key aggregate into
\* one output row, also when their title or artist values differ.
C11_OneRowPerTrackKey ==
    pc = "append" =>
        \A i, j \in DOMAIN tt_2021 :
            (/\ tt_2021[i].region = tt_2021[j].region
             /\ tt_2021[i].year = tt_2021[j].year
             /\ tt_2021[i][track_key] = tt_2021[j][track_key]) => i = j

TrackKeyCols == <<"url", "title", "artist">>

TrackKeyRow(g) == [url |-> g[1], title |-> g[2], artist |-> g[3]]

\* C14: two aggregated rows of the same (region, year) with equal summed
\* streams are ranked in the order in which the grouping produced them (the
\* ascending order of their group keys), and an aggregated row left out of
\* the output with the streams of a retained row follows it in that order.
C14_TiesKeepGroupingOrder ==
    pc = "append" =>
        \A reg \in RegionNames :
            /\ \A i, j \in RowsOf(tt_2021, reg) :
                   (/\ tt_2021[i].streams = tt_2021[j].streams
                    /\ RowLess(tt_2021[i], tt_2021[j], TrackKeyCols, 1))
                       => tt_2021[i].rank_year < tt_2021[j].rank_year
            /\ \A i \in RowsOf(tt_2021, reg) : \A g \in TrackGroups(reg) :
                   (/\ \A j \in RowsOf(tt_2021, reg) :
                           <<tt_2021[j].url, tt_2021[j].title, tt_2021[j].artist>> # g
                    /\ TrackGroupStreams(reg, g) = tt_2021[i].streams)
                       => RowLess(tt_2021[i], TrackKeyRow(g), TrackKeyCols, 1)
            /\ \A i, j \in RowsOf(ay_2021, reg) :
                   (/\ ay_2021[i].streams = ay_2021[j].streams
                    /\ StrPos(ay_2021[i].artist) < StrPos(ay_2021[j].artist))
                       => ay_2021[i].rank_year < ay_2021[j].rank_year
            /\ \A i \in RowsOf(ay_2021, reg) : \A a \in ArtistGroups(reg) :
                   (/\ \A j \in RowsOf(ay_2021, reg) : ay_2021[j].artist # a
                    /\ ArtistGroupStreams(reg, a) = ay_2021[i].streams)
                       => StrPos(ay_2021[i].artist) < StrPos(a)

\* C14 witness: two retained tracks of a region tie, a third track ties with
\* the last retained one and was left out, and so was an artist that ties
\* with the retained artist.
C14_Witness ==
    /\ pc = "append"
    /\ \E reg \in RegionNames :
           /\ \E i, j \in RowsOf(tt_2021, reg) :
                  i # j /\ tt_2021[i].streams = tt_2021[j].streams
           /\ \E i \in RowsOf(tt_2021, reg) : \E g \in TrackGroups(reg) :
                  /\ \A j \in RowsOf(tt_2021, reg) :
                         <<tt_2021[j].url, tt_2021[j].title, tt_2021[j].artist>> # g
                  /\ TrackGroupStreams(reg, g) = tt_2021[i].streams
           /\ \E i \in RowsOf(ay_2021, reg) : \E a \in ArtistGroups(reg) :
                  /\ \A j \in RowsOf(ay_2021, reg) : ay_2021[j].artist # a
                  /\ ArtistGroupStreams(reg, a) = ay_2021[i].streams

(***************************************************************************)
(* Claims about the persisted exports, checked under SpecJob.              *)
(***************************************************************************)
Persisted(table) == exports[table].rows

\* the rows of a (region, year) group number at most limit and carry
\* pairwise different rank_year values
GroupWithin(t, reg, limit) ==
    /\ Cardinality(RowsOf(t, reg)) <= limit
    /\ \A i, j \in RowsOf(t, reg) : t[i].rank_year = t[j].rank_year => i = j

\* C12: after any sequence of runs for the same year every (region, year)
\* group of the persisted top-tracks table has at most TrackLimit rows and
\* every group of the persisted artist table at most ArtistLimit rows, no
\* two rows of a group sharing a rank_year.
C12_PersistedGroupsWithinLimit ==
    \A reg \in RegionNames :
        /\ GroupWithin(Persisted("top_tracks_country_year_top500"), reg, TrackLimit)
        /\ GroupWithin(Persisted("artist_country_year_top200"), reg, ArtistLimit)

\* the regions whose qualifying rows all have absent streams
NoStreamsRegions ==
    {reg \in RegionNames :
        /\ QualifyingIn(reg) # {}
        /\ \A i \in QualifyingIn(reg) : df[i].streams = <<>>}

\* the rows of the table for the region report a total of 0 and no average
ZeroTotalNoAverage(t, reg) ==
    /\ RowsOf(t, reg) # {}
    /\ \A i \in RowsOf(t, reg) : t[i].total_streams = 0 /\ t[i].avg_streams = <<>>

\* C15: for a region whose qualifying rows all have absent streams the
\* country-year summary row has total_streams 0 and a missing avg_streams
\* (not 0), and the persisted summary still has this total and the missing
\* average once the run has merged it.
C15_AbsentStreams ==
    \A reg \in NoStreamsRegions :
        /\ pc \in {"tt", "ay", "append", "done"} => ZeroTotalNoAverage(cys_2021, reg)
        /\ (written # <<>> /\ written[1] = "country_year_summary")
               => ZeroTotalNoAverage(Persisted("country_year_summary"), reg)

\* C15 witness: a second run whose only row of the region has no streams
\* has merged its summary into a file that held a row with streams.
C15_Witness ==
    /\ NoStreamsRegions # {}
    /\ runs > 1
    /\ written # <<>>
    /\ pre_exports["country_year_summary"].exists
    /\ \E i \in DOMAIN pre_exports["country_year_summary"].rows :
           pre_exports["country_year_summary"].rows[i].avg_streams # <<>>

\* the order the claim fixes for the three writes
FixedOrder ==
    <<"country_year_summary", "top_tracks_country_year_top500", "artist_country_year_top200">>

\* C16: no export is written before the cleanup and the three aggregations
\* of the run are complete; the exports the run has written so far are a
\* prefix of the order country_year_summary, top_tracks_country_year_top500,
\* artist_country_year_top200, and every export after that prefix holds its
\* pre-run contents, at every point of a run and after a run that failed.
C16_WritesArePrefix ==
    /\ pc \in {"cleanup", "cys", "tt", "ay"} => written = <<>>
    /\ written # <<>> =>
           /\ df_2021 = Cleanup(df)
           /\ cys_2021 = CountryYearSummary(df_2021)
           /\ tt_2021 = TopTracks(df_2021)
           /\ ay_2021 = TopArtists(df_2021)
    /\ Len(written) <= Len(FixedOrder)
    /\ \A k \in DOMAIN written : written[k] = FixedOrder[k]
    /\ \A k \in (Len(written) + 1)..Len(FixedOrder) :
           exports[FixedOrder[k]] = pre_exports[FixedOrder[k]]

\* C16 witness: a later run failed after it had updated the summary and the
\* top tracks, and the artist table still holds what the earlier run wrote.
C16_Witness ==
    /\ pc = "failed"
    /\ runs > 1
    /\ Len(written) = 2
    /\ exports["country_year_summary"] # pre_exports["country_year_summary"]
    /\ exports["top_tracks_country_year_top500"] # pre_exports["top_tracks_country_year_top500"]
    /\ exports["artist_country_year_top200"].rows # <<>>
    /\ exports["artist_country_year_top200"].rows # ay_2021

(***************************************************************************)
(* Claims about the cleanup, checked under SpecClean.                      *)
(***************************************************************************)
\* a raw row with a parseable date in 2021, the chart value top200 exactly,
\* a region and a numeric rank
QualifiesExactly(r) == Qualifies(r) /\ r.chart = <<"top200">>

\* what identifies a row before and after the cleanup
RawIdentity(r) == <<r.region[1], r.chart[1], r.url, r.title, r.artist>>

CleanIdentity(r) == <<r.region, r.chart, r.url, r.title, r.artist>>

RECURSIVE SumOver(_, _, _)
SumOver(t, I, c) ==
    IF I = {} THEN 0
    ELSE LET i == CHOOSE x \in I : TRUE IN t[i][c] + SumOver(t, I \ {i}, c)

\* df_2021 holds the raw rows at the positions I and no other, and every
\* count, sum and ranked row of the three tables comes from those rows
OnlyRowsContribute(I) ==
    /\ pc # "cleanup" =>
           /\ Len(df_2021) = Cardinality(I)
           /\ MapRows(df_2021, CleanIdentity) = MapRows(Mask(df, I, 1), RawIdentity)
    /\ pc \in {"tt", "ay", "append"} =>
           /\ SumOver(cys_2021, DOMAIN cys_2021, "chart_rows") = Cardinality(I)
           /\ SumOver(cys_2021, DOMAIN cys_2021, "total_streams") = StreamsOver(I)
           /\ {cys_2021[k].region : k \in DOMAIN cys_2021} = {df[i].region[1] : i \in I}
    /\ pc \in {"ay", "append"} =>
           \A k \in DOMAIN tt_2021 :
               LET from == {i \in I : /\ df[i].region = <<tt_2021[k].region>>
                                      /\ df[i].url = tt_2021[k].url
                                      /\ df[i].title = tt_2021[k].title
                                      /\ df[i].artist = tt_2021[k].artist}
               IN  from # {} /\ tt_2021[k].streams = StreamsOver(from)
    /\ pc = "append" =>
           \A k \in DOMAIN ay_2021 :
               LET from == {i \in I : /\ df[i].region = <<ay_2021[k].region>>
                                      /\ df[i].artist = ay_2021[k].artist}
               IN  from # {} /\ ay_2021[k].streams = StreamsOver(from)

\* C13 as stated: the rows that contribute to the three summaries are the
\* raw rows with a parseable date in 2021, a chart value equal to top200, a
\* present region and a numeric rank; every other row is dropped and
\* contributes to no count, sum or rank.
C13_OnlyExactTop200Contributes ==
    OnlyRowsContribute({i \in DOMAIN df : QualifiesExactly(df[i])})

\* C13: the rows that contribute to the three summaries are the raw rows
\* with a parseable date in 2021, a chart value equal to top200 when letter
\* case is ignored, a present region and a numeric rank; every other row is
\* dropped and contributes to no count, sum or rank.
C13_OnlyCleanRowsContribute ==
    OnlyRowsContribute({i \in DOMAIN df : Qualifies(df[i])})

\* C13 witness: the three tables are built from an input with a row the
\* cleanup dropped, a row of the chart written Top200 and a row written
\* top200.
C13_Witness ==
    /\ pc = "append"
    /\ \E i \in DOMAIN df : ~Qualifies(df[i])
    /\ \E i \in DOMAIN df : Qualifies(df[i]) /\ ~QualifiesExactly(df[i])
    /\ \E i \in DOMAIN df : QualifiesExactly(df[i])
    /\ Len(df_2021) = 2
    /\ Len(cys_2021) = 2

====
